---- MODULE Spec2Model ----
(***************************************************************************)
(* ODOT drainage tables generator: the flex-table reader (parser.py), the  *)
(* inlet and drainage-area sheet builders (formatter_inlet.py,             *)
(* formatter_da.py) and the Generate handler of the window (gui.py).       *)
(*                                                                         *)
(* Text is a sequence of one-character strings, so that upper-casing,      *)
(* trimming, substring search, splitting and joining are computed.  A cell *)
(* value is None, a text or an integer, tagged in the field t.             *)
(***************************************************************************)
EXTENDS Integers, Sequences, FiniteSets, TLC

VARIABLES
    pc,          \* position of the operation under way
    kind,        \* which reader the input grid is for: "da" or "inlet"
    rows,        \* the input grid: rows[1] is the header row
    col_map,     \* field -> column index, as the reader resolved it
    data,        \* the records the reader returned
    prev,        \* the records of the read before the columns were reordered
    prev_rows,   \* the grid of that earlier read
    inlet_data,  \* argument of create_inlet_sheet
    da_data,     \* argument of create_inlet_sheet / create_da_summary_sheet
    da_by_outflow, \* the lookup built inside create_inlet_sheet
    ws,          \* the worksheet create_inlet_sheet returned
    da_file,     \* gui: text of the drainage-area path entry
    inlet_file,  \* gui: text of the inlet path entry
    disk,        \* gui: path -> file on disk
    save_path,   \* gui: answer of the save dialog
    wb,          \* gui: the output workbook, a sequence of sheets
    events,      \* gui: file-system operations attempted, in order
    dialogs,     \* gui: message boxes shown, in order
    status       \* gui: colour of the status line

vars == <<pc, kind, rows, col_map, data, prev, prev_rows, inlet_data, da_data,
          da_by_outflow, ws, da_file, inlet_file, disk, save_path, wb, events,
          dialogs, status>>

parse_vars == <<kind, rows, col_map, data, prev, prev_rows>>
sheet_vars == <<inlet_data, da_data, da_by_outflow, ws>>
gui_vars   == <<da_file, inlet_file, disk, save_path, wb, events, dialogs, status>>

-----------------------------------------------------------------------------
(* Bounds of the model *)

MaxCols == 2      \* widest input grid
MaxRows == 2      \* most data rows of an input grid
ReorderCols == 2  \* widest grid whose columns are reordered
ReorderRows == 1  \* most data rows of such a grid
MaxInlets == 2    \* most inlet records handed to create_inlet_sheet
MaxDAs == 2       \* most drainage-area records handed to create_inlet_sheet
MaxRowInlets == 1 \* most inlet records when the fields of a row are varied
MaxDaRows == 2    \* most drainage-area records handed to create_da_summary_sheet
RaggedCols == 2   \* widest grid whose rows differ in length
RaggedRows == 1   \* most data rows of such a grid

-----------------------------------------------------------------------------
(* Python values *)

None   == [t |-> "none", s |-> <<>>, n |-> 0]
Str(x) == [t |-> "str",  s |-> x,    n |-> 0]
Num(k) == [t |-> "num",  s |-> <<>>, n |-> k]

\* bool(v): None, 0 and "" are false
truthy(v) == \/ v.t = "str" /\ v.s # <<>>
             \/ v.t = "num" /\ v.n # 0

\* v or w
py_or(v, w) == IF truthy(v) THEN v ELSE w

\* d.get(k) and d.get(k, default) of a dict d
get(d, k) == IF k \in DOMAIN d THEN d[k] ELSE None
get_default(d, k, default) == IF k \in DOMAIN d THEN d[k] ELSE default

SetMin(S) == CHOOSE x \in S : \A y \in S : x <= y
SetMax(S) == CHOOSE x \in S : \A y \in S : x >= y

-----------------------------------------------------------------------------
(* Python text operations *)

LowerCase == <<"a", "b", "c", "d", "e", "f", "g", "h", "i", "j", "k", "l", "m", "n", "o", "p", "q", "r", "s", "t", "u", "v", "w", "x", "y", "z">>
UpperCase == <<"A", "B", "C", "D", "E", "F", "G", "H", "I", "J", "K", "L", "M", "N", "O", "P", "Q", "R", "S", "T", "U", "V", "W", "X", "Y", "Z">>
Digits    == <<"0", "1", "2", "3", "4", "5", "6", "7", "8", "9">>

\* the upper-case letter of each lower-case letter
ToUpper ==
    [c \in {LowerCase[i] : i \in DOMAIN LowerCase} |->
        UpperCase[CHOOSE i \in DOMAIN LowerCase : LowerCase[i] = c]]

upper_char(c) == IF c \in DOMAIN ToUpper THEN ToUpper[c] ELSE c

\* s.upper()
upper(s) == [i \in 1..Len(s) |-> upper_char(s[i])]

\* s.strip()
strip(s) ==
    LET solid == {i \in 1..Len(s) : s[i] # " "}
    IN  IF solid = {} THEN <<>> ELSE SubSeq(s, SetMin(solid), SetMax(solid))

\* p in s
contains(p, s) ==
    \E i \in 0..(Len(s) - Len(p)) : \A j \in 1..Len(p) : s[i + j] = p[j]

\* s.split(sep) for a one-character sep: the pieces between the separators
split(s, sep) ==
    LET cuts   == {i \in 1..Len(s) : s[i] = sep}
        n      == Cardinality(cuts)
        cut(k) == IF k = 0 THEN 0
                  ELSE IF k = n + 1 THEN Len(s) + 1
                  ELSE CHOOSE i \in cuts : Cardinality({j \in cuts : j < i}) = k - 1
    IN  [k \in 1..(n + 1) |-> SubSeq(s, cut(k - 1) + 1, cut(k) - 1)]

RECURSIVE nat_text(_)
nat_text(k) ==
    IF k < 10 THEN <<Digits[k + 1]>>
    ELSE nat_text(k \div 10) \o <<Digits[(k % 10) + 1]>>

\* str(v) and f"{v}"
str(v) ==
    IF v.t = "str" THEN v.s
    ELSE IF v.t = "none" THEN <<"N", "o", "n", "e">>
    ELSE IF v.n < 0 THEN <<"-">> \o nat_text(-v.n)
    ELSE nat_text(v.n)

\* sep.join(parts)
RECURSIVE join(_, _)
join(sep, parts) ==
    IF parts = <<>> THEN <<>>
    ELSE IF Len(parts) = 1 THEN parts[1]
    ELSE parts[1] \o sep \o join(sep, Tail(parts))

-----------------------------------------------------------------------------
(* parser.py *)

\* _find_column counting the columns from one
_find_column_from_one(header, target_phrases) ==
    LET h_upper(i) == upper(header[i])
        hit(i) == \E p \in DOMAIN target_phrases :
                      contains(target_phrases[p], h_upper(i))
        hits   == {i \in DOMAIN header : hit(i)}
    IN  IF hits = {} THEN None ELSE Num(SetMin(hits))

\* the first header cell, left to right, that contains any of the phrases
_find_column(header, target_phrases) ==
    LET h_upper(i) == upper(header[i])
        hit(i) == \E p \in DOMAIN target_phrases :
                      contains(target_phrases[p], h_upper(i))
        hits   == {i \in DOMAIN header : hit(i)}
    IN  IF hits = {} THEN None ELSE Num(SetMin(hits) - 1)

\* header = [str(h).strip() if h else "" for h in rows[0]]
clean_header(row0) ==
    [i \in DOMAIN row0 |-> IF truthy(row0[i]) THEN strip(str(row0[i])) ELSE <<>>]

DA_PHRASES ==
    [designation       |-> <<<<"D", "R", "A", "I", "N", "A", "G", "E", " ", "A", "R", "E", "A", " ", "D", "E", "S", "I", "G", "N", "A", "T", "I", "O", "N">>>>,
     outflow_structure |-> <<<<"O", "U", "T", "F", "L", "O", "W", " ", "S", "T", "R", "U", "C", "T", "U", "R", "E">>>>,
     area_acres        |-> <<<<"D", "R", "A", "I", "N", "A", "G", "E", " ", "A", "R", "E", "A", " ", "(", "A", "C", "R", "E">>, <<"D", "R", "A", "I", "N", "A", "G", "E", " ", "A", "R", "E", "A", "(", "A", "C", "R", "E">>>>,
     tc_min            |-> <<<<"T", "I", "M", "E", " ", "O", "F", " ", "C", "O", "N", "C", "E", "N", "T", "R", "A", "T", "I", "O", "N">>>>,
     runoff_coeff      |-> <<<<"R", "U", "N", "O", "F", "F", " ", "C", "O", "E", "F", "F", "I", "C", "I", "E", "N", "T">>>>,
     intensity         |-> <<<<"C", "A", "T", "C", "H", "M", "E", "N", "T", " ", "I", "N", "T", "E", "N", "S", "I", "T", "Y">>, <<"I", "N", "T", "E", "N", "S", "I", "T", "Y">>>>,
     flow_cfs          |-> <<<<"C", "A", "T", "C", "H", "M", "E", "N", "T", " ", "R", "A", "T", "I", "O", "N", "A", "L", " ", "F", "L", "O", "W">>, <<"R", "A", "T", "I", "O", "N", "A", "L", " ", "F", "L", "O", "W">>>>]

INLET_PHRASES ==
    [structure_no           |-> <<<<"S", "T", "R", "U", "C", "T", "U", "R", "E", " ", "N", "O">>>>,
     alignment              |-> <<<<"A", "L", "I", "G", "N", "M", "E", "N", "T">>>>,
     station                |-> <<<<"S", "T", "A", "T", "I", "O", "N">>>>,
     offset                 |-> <<<<"O", "F", "F", "S", "E", "T">>>>,
     structure_type         |-> <<<<"S", "T", "R", "U", "C", "T", "U", "R", "E", " ", "T", "Y", "P", "E">>>>,
     description            |-> <<<<"D", "E", "S", "C", "R", "I", "P", "T", "I", "O", "N">>>>,
     elevation_rim          |-> <<<<"E", "L", "E", "V", "A", "T", "I", "O", "N", " ", "(", "R", "I", "M", ")">>, <<"E", "L", "E", "V", "A", "T", "I", "O", "N">>>>,
     flow_captured          |-> <<<<"F", "L", "O", "W", " ", "(", "C", "A", "P", "T", "U", "R", "E", "D", ")">>, <<"C", "A", "P", "T", "U", "R", "E", "D">>>>,
     flow_bypassed_rational |-> <<<<"B", "Y", "P", "A", "S", "S", "E", "D", " ", "R", "A", "T", "I", "O", "N", "A", "L">>>>,
     flow_total_bypassed    |-> <<<<"T", "O", "T", "A", "L", " ", "B", "Y", "P", "A", "S", "S", "E", "D">>>>,
     capture_efficiency     |-> <<<<"C", "A", "P", "T", "U", "R", "E", " ", "E", "F", "F", "I", "C", "I", "E", "N", "C", "Y">>>>,
     max_spread             |-> <<<<"S", "P", "R", "E", "A", "D">>>>,
     hgl_out                |-> <<<<"H", "Y", "D", "R", "A", "U", "L", "I", "C", " ", "G", "R", "A", "D", "E">>>>,
     egl_out                |-> <<<<"E", "N", "E", "R", "G", "Y", " ", "G", "R", "A", "D", "E">>>>,
     bypass_target          |-> <<<<"B", "Y", "P", "A", "S", "S", " ", "T", "A", "R", "G", "E", "T">>>>]

\* col_map = {field: _find_column(header, phrases)}, then the fields that
\* found no column removed
resolve(header, phrases) ==
    LET found == [f \in DOMAIN phrases |-> _find_column(header, phrases[f])]
        kept  == {f \in DOMAIN phrases : found[f] # None}
    IN  [f \in kept |-> found[f].n]

\* the loop over rows[1:]: a row whose first cell is None is skipped, every
\* other row gives one record
collect_records(grid, cmap) ==
    LET kept == SelectSeq(Tail(grid), LAMBDA row : row[1] # None)
        record(row) ==
            [f \in DOMAIN cmap |->
                IF cmap[f] < Len(row) THEN row[cmap[f] + 1] ELSE None]
    IN  [i \in 1..Len(kept) |-> record(kept[i])]

da_col_map(grid) == resolve(clean_header(grid[1]), DA_PHRASES)
inlet_col_map(grid) == resolve(clean_header(grid[1]), INLET_PHRASES)

\* row[0] of a data row that has no cell raises IndexError
first_cell_raises(grid) == \E r \in 2..Len(grid) : Len(grid[r]) = 0

\* file: [readable, rows]; the result: [raised, data]
parse_da_summary(file) ==
    IF ~file.readable THEN [raised |-> TRUE, data |-> <<>>]
    ELSE IF file.rows = <<>> THEN [raised |-> FALSE, data |-> <<>>]
    ELSE IF first_cell_raises(file.rows) THEN [raised |-> TRUE, data |-> <<>>]
    ELSE [raised |-> FALSE,
          data   |-> collect_records(file.rows, da_col_map(file.rows))]

parse_inlets(file) ==
    IF ~file.readable THEN [raised |-> TRUE, data |-> <<>>]
    ELSE IF file.rows = <<>> THEN [raised |-> FALSE, data |-> <<>>]
    ELSE IF first_cell_raises(file.rows) THEN [raised |-> TRUE, data |-> <<>>]
    ELSE [raised |-> FALSE,
          data   |-> collect_records(file.rows, inlet_col_map(file.rows))]

-----------------------------------------------------------------------------
(* Reading an exported flex table: parse_da_summary and parse_inlets are    *)
(* applied to a grid, then the same table is exported again with its        *)
(* columns in another order and read again.                                 *)

EmptyDict == [f \in {} |-> None]

\* header cells of a drainage-area export and of an inlet export
DaHeaderCells ==
    {None, Str(<<"R", "a", "i", "n", "f", "a", "l", "l", " ", "I", "n", "t", "e", "n", "s", "i", "t", "y">>), Str(<<" ", "C", "a", "t", "c", "h", "m", "e", "n", "t", " ", "I", "n", "t", "e", "n", "s", "i", "t", "y", " ", "(", "i", "n", "/", "h", ")">>),
     Str(<<"O", "u", "t", "f", "l", "o", "w", " ", "S", "t", "r", "u", "c", "t", "u", "r", "e">>)}

InletHeaderCells ==
    {None, Str(<<"S", "t", "r", "u", "c", "t", "u", "r", "e", " ", "N", "o">>), Str(<<"C", "a", "p", "t", "u", "r", "e", "d", " ", "c", "f", "s">>),
     Str(<<"F", "l", "o", "w", " ", "(", "C", "a", "p", "t", "u", "r", "e", "d", ")", " ", "(", "c", "f", "s", ")">>)}

HeaderCells(k) == IF k = "da" THEN DaHeaderCells ELSE InletHeaderCells

\* data cells: an empty cell, an empty text, a text
DataCells == {None, Str(<<>>), Str(<<"A">>)}

GridsOf(headers, cells, maxw, maxm) ==
    UNION {UNION {{<<h>> \o d : h \in [1..w -> headers],
                                d \in [1..m -> [1..w -> cells]]}
                  : m \in 0..maxm}
           : w \in 1..maxw}

Grids(k) == {<<>>} \cup GridsOf(HeaderCells(k), DataCells, MaxCols, MaxRows)

\* grids whose cells are empty or hold a text naming the column they are in
ColumnText == <<<<"A">>, <<"B">>, <<"C">>, <<"D">>, <<"E">>>>

TaggedRows(w) ==
    {r \in [1..w -> {None} \cup {Str(ColumnText[c]) : c \in 1..w}] :
        \A c \in 1..w : r[c] \in {None, Str(ColumnText[c])}}

TaggedGrids(k) ==
    UNION {UNION {{<<h>> \o d : h \in [1..w -> HeaderCells(k)],
                                d \in [1..m -> TaggedRows(w)]}
                  : m \in 0..ReorderRows}
           : w \in 1..ReorderCols}

Idle_sheet == /\ inlet_data = <<>>
              /\ da_data = <<>>
              /\ da_by_outflow = EmptyDict
              /\ ws = EmptyDict

Idle_gui == /\ da_file = <<>>
            /\ inlet_file = <<>>
            /\ disk = EmptyDict
            /\ save_path = <<>>
            /\ wb = <<>>
            /\ events = <<>>
            /\ dialogs = <<>>
            /\ status = "black"

InitParse ==
    /\ pc = "loaded"
    /\ kind \in {"da", "inlet"}
    /\ rows \in Grids(kind)
    /\ col_map = EmptyDict
    /\ data = <<>>
    /\ prev = <<>>
    /\ prev_rows = <<>>
    /\ Idle_sheet
    /\ Idle_gui

ParseDaSummary ==
    /\ pc = "loaded"
    /\ kind = "da"
    /\ LET r == parse_da_summary([readable |-> TRUE, rows |-> rows])
       IN  /\ data' = r.data
           /\ pc' = IF r.raised THEN "raised" ELSE "parsed"
    /\ col_map' = IF rows = <<>> THEN EmptyDict ELSE da_col_map(rows)
    /\ UNCHANGED <<kind, rows, prev, prev_rows, sheet_vars, gui_vars>>

ParseInlets ==
    /\ pc = "loaded"
    /\ kind = "inlet"
    /\ LET r == parse_inlets([readable |-> TRUE, rows |-> rows])
       IN  /\ data' = r.data
           /\ pc' = IF r.raised THEN "raised" ELSE "parsed"
    /\ col_map' = IF rows = <<>> THEN EmptyDict ELSE inlet_col_map(rows)
    /\ UNCHANGED <<kind, rows, prev, prev_rows, sheet_vars, gui_vars>>

\* the grid with column i taken from column perm[i] of every row
reordered(grid, perm) ==
    [r \in DOMAIN grid |-> [i \in DOMAIN grid[r] |-> grid[r][perm[i]]]]

Perms(w) == {p \in [1..w -> 1..w] : \A i, j \in 1..w : p[i] = p[j] => i = j}

\* the table is exported again with its columns reordered
ReorderColumns ==
    /\ pc = "parsed"
    /\ prev_rows = <<>>
    /\ rows # <<>>
    /\ \E perm \in Perms(Len(rows[1])) :
          /\ reordered(rows, perm) # rows
          /\ rows' = reordered(rows, perm)
    /\ prev_rows' = rows
    /\ prev' = data
    /\ data' = <<>>
    /\ col_map' = EmptyDict
    /\ pc' = "loaded"
    /\ UNCHANGED <<kind, sheet_vars, gui_vars>>

NextParse == ParseDaSummary \/ ParseInlets

SpecParse == InitParse /\ [][NextParse]_vars

InitReorder ==
    /\ pc = "loaded"
    /\ kind \in {"da", "inlet"}
    /\ rows \in TaggedGrids(kind)
    /\ col_map = EmptyDict
    /\ data = <<>>
    /\ prev = <<>>
    /\ prev_rows = <<>>
    /\ Idle_sheet
    /\ Idle_gui

NextReorder == ParseDaSummary \/ ParseInlets \/ ReorderColumns

SpecReorder == InitReorder /\ [][NextReorder]_vars

-----------------------------------------------------------------------------
(* formatter_inlet.py *)

\* COLUMNS: (letter, header text); the widths and the rotation are styling
COLUMNS ==
    << <<"B", "STRUCTURE NUMBER">>, <<"C", "ALIGNMENT">>,
       <<"D", "STATION, OFFSET">>, <<"E", "INLET TYPE">>,
       <<"F", "DESCRIPTION">>, <<"G", "DESIGN YEAR">>,
       <<"H", "DRAINAGE AREA">>, <<"I", "AREA (ACRE)">>,
       <<"J", "C VALUE">>, <<"K", "Tc (MINUTES)">>,
       <<"L", "INTENSITY (IN/HR)">>, <<"M", " FLOW RATE INITIAL (Qi) (CFS)">>,
       <<"N", "GRADE \"SL\" (ft/ft)">>, <<"O", "CROSS SLOPE \"Sx\" (ft/ft)">>,
       <<"P", "CARRY OVER (CFS)">>, <<"Q", "SUM Q AT INLETS (CFS)">>,
       <<"R", "DEPTH AT INLET (FT)">>, <<"S", "SPREAD AT INLET (FT)">>,
       <<"T", "BYPASS(CFS)">>, <<"U", "BYPASS TO INLET">>,
       <<"V", "COMMENTS">> >>

Letters == <<"A", "B", "C", "D", "E", "F", "G", "H", "I", "J", "K", "L", "M",
             "N", "O", "P", "Q", "R", "S", "T", "U", "V">>

\* the column number of a column letter
col(letter) == CHOOSE i \in DOMAIN Letters : Letters[i] = letter

\* a cell range "A5:A7" is <<col("A"), 5, col("A"), 7>>
range(l1, r1, l2, r2) == <<col(l1), r1, col(l2), r2>>

\* _extract_inlet_type taking the first segment of the path
_extract_inlet_type_first(description) ==
    IF ~truthy(description) THEN <<>>
    ELSE LET parts == split(str(description), "\\")
         IN  strip(parts[1])

_extract_inlet_type(description) ==
    IF ~truthy(description) THEN <<>>
    ELSE LET parts == split(str(description), "\\")
         IN  strip(parts[Len(parts)])

\* _format_station_offset without the test for a zero offset
_format_station_offset_keep_zero(station, offset) ==
    LET parts == (IF station # None THEN <<str(station)>> ELSE <<>>)
                 \o (IF offset # None
                     THEN <<<<"O", "f", "f", "s", "e", "t", ":", " ">> \o str(offset)>> ELSE <<>>)
    IN  IF parts # <<>> THEN join(<<",", " ">>, parts) ELSE <<>>

_format_station_offset(station, offset) ==
    LET parts == (IF station # None THEN <<str(station)>> ELSE <<>>)
                 \o (IF offset # None /\ offset # Num(0)
                     THEN <<<<"O", "f", "f", "s", "e", "t", ":", " ">> \o str(offset)>> ELSE <<>>)
    IN  IF parts # <<>> THEN join(<<",", " ">>, parts) ELSE <<>>

\* d[k] = v
dict_set(d, k, v) == [x \in DOMAIN d \cup {k} |-> IF x = k THEN v ELSE d[x]]

\* the lookup outflow_structure -> drainage-area record, after the first n
\* records of da_data went through the loop
RECURSIVE build_da_lookup(_, _)
build_da_lookup(das, n) ==
    IF n = 0 THEN EmptyDict
    ELSE LET d       == build_da_lookup(das, n - 1)
             da      == das[n]
             outflow == get_default(da, "outflow_structure", Str(<<>>))
         IN  IF truthy(outflow) THEN dict_set(d, strip(str(outflow)), da) ELSE d

\* da_by_outflow.get(struct_no): the keys are texts, so only a text finds one
lookup(d, struct_no) ==
    IF struct_no.t = "str" /\ struct_no.s \in DOMAIN d
    THEN [found |-> TRUE, record |-> d[struct_no.s]]
    ELSE [found |-> FALSE, record |-> EmptyDict]

\* da_record.get(k) if da_record else None
da_field(da_record, k) ==
    IF da_record.found /\ DOMAIN da_record.record # {}
    THEN get(da_record.record, k) ELSE None

\* does v + w raise TypeError
add_raises(v, w) == v.t # w.t

\* v + w of two numbers or of two texts
add(v, w) == IF v.t = "num" THEN Num(v.n + w.n) ELSE Str(v.s \o w.s)

captured_of(record) == py_or(get(record, "flow_captured"), Num(0))
bypassed_of(record) == py_or(get(record, "flow_total_bypassed"), Num(0))

\* sum_q = captured + bypassed if (captured or bypassed) else None
sum_q_of(record) ==
    IF truthy(py_or(captured_of(record), bypassed_of(record)))
    THEN add(captured_of(record), bypassed_of(record))
    ELSE None

sum_q_raises(record) ==
    /\ truthy(py_or(captured_of(record), bypassed_of(record)))
    /\ add_raises(captured_of(record), bypassed_of(record))

\* the values written to columns B..V of one data row
inlet_row(record, lookup_table) ==
    LET struct_no == get_default(record, "structure_no", Str(<<>>))
        da_record == lookup(lookup_table, struct_no)
    IN  [c \in 2..22 |->
          CASE c = 2  -> struct_no
            [] c = 3  -> get(record, "alignment")
            [] c = 4  -> Str(_format_station_offset(get(record, "station"),
                                                   get(record, "offset")))
            [] c = 5  -> Str(_extract_inlet_type(get(record, "description")))
            [] c = 6  -> get(record, "structure_type")
            [] c = 8  -> da_field(da_record, "designation")
            [] c = 9  -> da_field(da_record, "area_acres")
            [] c = 10 -> da_field(da_record, "runoff_coeff")
            [] c = 11 -> da_field(da_record, "tc_min")
            [] c = 12 -> da_field(da_record, "intensity")
            [] c = 13 -> get(record, "flow_captured")
            [] c = 16 -> get(record, "flow_total_bypassed")
            [] c = 17 -> sum_q_of(record)
            [] c = 19 -> get(record, "max_spread")
            [] c = 20 -> get(record, "flow_bypassed_rational")
            [] c = 21 -> get(record, "bypass_target")
            [] OTHER  -> None]

\* the first data row of the Inlets sheet
data_start == 5

\* label_merges merging column A for a single data row as well
label_merges_single_row(inlets) ==
    LET data_end == data_start + Len(inlets) - 1
    IN  IF Len(inlets) > 0 THEN {range("A", data_start, "A", data_end)} ELSE {}

\* the merge of column A over the data rows, made for more than one row
label_merges(inlets) ==
    LET data_end == data_start + Len(inlets) - 1
    IN  IF Len(inlets) > 1 THEN {range("A", data_start, "A", data_end)} ELSE {}

\* wb.create_sheet(title="Inlets") filled in: the title and header cells, the
\* merged ranges, and the cells of the label and of the data rows.  A row
\* whose sum raises stops the build after its column P was written.
create_inlet_sheet(inlets, das) ==
    LET lookup_table == IF das # <<>> THEN build_da_lookup(das, Len(das))
                        ELSE EmptyDict
        bad      == {i \in DOMAIN inlets : sum_q_raises(inlets[i])}
        stop     == IF bad = {} THEN Len(inlets) + 1 ELSE SetMin(bad)
        written  == {<<data_start + i - 1, c>> : i \in 1..(stop - 1), c \in 2..22}
                    \cup {<<data_start + stop - 1, c>> :
                             c \in (IF bad = {} THEN {} ELSE 2..16)}
        label    == IF inlets # <<>> THEN {<<data_start, 1>>} ELSE {}
    IN  [raised |-> bad # {},
         da_by_outflow |-> lookup_table,
         ws |->
           [title  |-> "Inlets",
            fixed  |-> [x \in {<<1, col("B")>>}
                              \cup {<<2, col(COLUMNS[k][1])>> : k \in DOMAIN COLUMNS} |->
                          IF x[1] = 1
                          THEN "DRAINAGE STRUCTURE DESIGN RECORD - INLETS"
                          ELSE COLUMNS[x[2] - 1][2]],
            merged |-> {range("B", 1, "V", 1)}
                       \cup {range(COLUMNS[k][1], 2, COLUMNS[k][1], 4) :
                                k \in DOMAIN COLUMNS}
                       \cup label_merges(inlets),
            cells  |-> [x \in label \cup written |->
                          IF x[2] = 1 THEN Str(<<"P", "R", "O", "P", "O", "S", "E", "D">>)
                          ELSE inlet_row(inlets[x[1] - data_start + 1],
                                         lookup_table)[x[2]]]]]

-----------------------------------------------------------------------------
(* create_inlet_sheet applied to inlet records and drainage-area records *)

\* marks a field the export has no column for
Absent == [t |-> "absent", s |-> <<>>, n |-> 0]

\* a drainage-area record, the i-th of its list, with the given
\* outflow_structure cell
DaRecord(i, outflow) ==
    LET base == [designation  |-> Str(<<"D", Digits[i + 1]>>),
                 area_acres   |-> Num(10 + i),
                 tc_min       |-> Num(20 + i),
                 runoff_coeff |-> Num(30 + i),
                 intensity    |-> Num(40 + i),
                 flow_cfs     |-> Num(50 + i)]
    IN  IF outflow = Absent THEN base
        ELSE [f \in DOMAIN base \cup {"outflow_structure"} |->
                IF f = "outflow_structure" THEN outflow ELSE base[f]]

OutflowCells ==
    {Absent, None, Str(<<>>), Str(<<" ">>), Str(<<"A">>), Str(<<" ", "A", " ">>)}

DaLists ==
    UNION {{[i \in 1..n |-> DaRecord(i, o[i])] : o \in [1..n -> OutflowCells]}
           : n \in 0..MaxDAs}

\* a dict with the given cells; Absent leaves the field out
Dict(cells) == [f \in {g \in DOMAIN cells : cells[g] # Absent} |-> cells[f]]

\* inlet records that differ in their structure number
LinkInlets ==
    {Dict([structure_no |-> v, alignment |-> Str(<<"X">>)]) :
        v \in {Absent, None, Str(<<>>), Str(<<"A">>), Str(<<" ", "A">>)}}

\* inlet records that differ in their flows, in their description, in their
\* station and offset
FlowInlets ==
    {Dict([structure_no |-> Str(<<"A">>), flow_captured |-> c,
           flow_total_bypassed |-> b]) :
        c \in {Absent, None, Num(0), Num(3)},
        b \in {Absent, None, Num(0), Num(2), Num(-3)}}

DescriptionInlets ==
    {Dict([structure_no |-> Str(<<"A">>), description |-> d]) :
        d \in {Absent, None, Str(<<>>), Str(<<" ">>), Str(<<"C", "I">>),
               Str(<<"N", "\\", "I", "\\", " ", "C", "I", " ", "2", " ">>), Str(<<"N", "\\", "C", "I", "\\">>), Str(<<"N", "\\", "C", "I", "\\", " ">>),
               Str(<<"\\">>)}}

StationInlets ==
    {Dict([structure_no |-> Str(<<"A">>), station |-> s, offset |-> o]) :
        s \in {Absent, None, Str(<<"1", "+", "5", "0">>), Num(12)},
        o \in {Absent, None, Num(0), Num(5), Num(-12)}}

InletLists(pool, maxn) == UNION {[1..n -> pool] : n \in 0..maxn}

InitSheet ==
    /\ pc = "ready"
    /\ \/ /\ inlet_data \in InletLists(LinkInlets, MaxInlets)
          /\ da_data \in DaLists
       \/ /\ inlet_data \in InletLists(FlowInlets \cup DescriptionInlets
                                       \cup StationInlets, MaxRowInlets)
          /\ da_data = <<>>
    /\ da_by_outflow = EmptyDict
    /\ ws = EmptyDict
    /\ kind = "inlet"
    /\ rows = <<>>
    /\ col_map = EmptyDict
    /\ data = <<>>
    /\ prev = <<>>
    /\ prev_rows = <<>>
    /\ Idle_gui

CreateInletSheet ==
    /\ pc = "ready"
    /\ LET r == create_inlet_sheet(inlet_data, da_data)
       IN  /\ ws' = r.ws
           /\ da_by_outflow' = r.da_by_outflow
           /\ pc' = IF r.raised THEN "raised" ELSE "built"
    /\ UNCHANGED <<inlet_data, da_data, parse_vars, gui_vars>>

NextSheet == CreateInletSheet

SpecSheet == InitSheet /\ [][NextSheet]_vars

-----------------------------------------------------------------------------
(* formatter_da.py *)

single_headers ==
    << <<"A", "DRAINAGE AREA DESIGNATION">>, <<"B", "DRAINAGE AREA (ACRE)">>,
       <<"C", "TOTAL TC (MIN)">>, <<"D", "RUNOFF COEFF. \"C\"">> >>

sub_headers == <<"10 YEAR", "25 YEAR", "50 YEAR", "100 YEAR">>

\* da_row with the one intensity and the one flow copied to every storm year
da_row_all_years(record) ==
    [c \in 1..12 |->
       CASE c = 1  -> get(record, "designation")
         [] c = 2  -> get(record, "area_acres")
         [] c = 3  -> get(record, "tc_min")
         [] c = 4  -> get(record, "runoff_coeff")
         [] c \in 5..8  -> get(record, "intensity")
         [] OTHER  -> get(record, "flow_cfs")]

\* the values written to columns A..L of one data row
da_row(record) ==
    [c \in 1..12 |->
       CASE c = 1  -> get(record, "designation")
         [] c = 2  -> get(record, "area_acres")
         [] c = 3  -> get(record, "tc_min")
         [] c = 4  -> get(record, "runoff_coeff")
         [] c = 5  -> get(record, "intensity")
         [] c = 9  -> get(record, "flow_cfs")
         [] OTHER  -> None]

\* wb.create_sheet(title="Drainage Area Summary") filled in
create_da_summary_sheet(das) ==
    [title  |-> "Drainage Area Summary",
     fixed  |-> [x \in {<<2, 1>>} \cup {<<3, c>> : c \in {1, 2, 3, 4, 5, 9}}
                       \cup {<<4, c>> : c \in 5..12} |->
                   IF x[1] = 2 THEN "DRAINAGE AREA SUMMARY"
                   ELSE IF x[1] = 3 /\ x[2] <= 4 THEN single_headers[x[2]][2]
                   ELSE IF x[1] = 3 /\ x[2] = 5 THEN "RAINFALL INTENSITY (IN/HR)"
                   ELSE IF x[1] = 3 THEN "PEAK FLOW (CFS)"
                   ELSE IF x[2] <= 8 THEN sub_headers[x[2] - 4]
                   ELSE sub_headers[x[2] - 8]],
     merged |-> {range("A", 2, "L", 2), range("E", 3, "H", 3),
                 range("I", 3, "L", 3)}
                \cup {range(single_headers[k][1], 3, single_headers[k][1], 4) :
                         k \in DOMAIN single_headers},
     cells  |-> [x \in {<<4 + i, c>> : i \in DOMAIN das, c \in 1..12} |->
                   da_row(das[x[1] - 4])[x[2]]]]

-----------------------------------------------------------------------------
(* create_da_summary_sheet applied to drainage-area records *)

\* records that differ in their designation, intensity and flow, and records
\* that carry the other fields
DaSheetRecords ==
    {Dict([designation |-> g, intensity |-> i, flow_cfs |-> f]) :
        g \in {Absent, Str(<<"D", "1">>), Str(<<"D", "2">>)},
        i \in {Absent, None, Num(4)},
        f \in {Absent, Num(5)}}
    \cup {Dict([designation |-> Str(<<"D", "3">>), area_acres |-> Num(1),
                tc_min |-> t, runoff_coeff |-> Num(3),
                outflow_structure |-> Str(<<"A">>)]) : t \in {Absent, Num(2)}}

DaSheetLists == UNION {[1..n -> DaSheetRecords] : n \in 0..MaxDaRows}

InitDaSheet ==
    /\ pc = "ready"
    /\ da_data \in DaSheetLists
    /\ inlet_data = <<>>
    /\ da_by_outflow = EmptyDict
    /\ ws = EmptyDict
    /\ kind = "da"
    /\ rows = <<>>
    /\ col_map = EmptyDict
    /\ data = <<>>
    /\ prev = <<>>
    /\ prev_rows = <<>>
    /\ Idle_gui

CreateDaSummarySheet ==
    /\ pc = "ready"
    /\ ws' = create_da_summary_sheet(da_data)
    /\ pc' = "built"
    /\ UNCHANGED <<inlet_data, da_data, da_by_outflow, parse_vars, gui_vars>>

NextDaSheet == CreateDaSummarySheet

SpecDaSheet == InitDaSheet /\ [][NextDaSheet]_vars

-----------------------------------------------------------------------------
(* A grid whose rows differ in length is read, and the layout of its table *)
(* is built from the records, as _generate does.                           *)

RaggedHeaderCells(k) ==
    IF k = "da" THEN {None, Str(<<"O", "u", "t", "f", "l", "o", "w", " ", "S", "t", "r", "u", "c", "t", "u", "r", "e">>), Str(<<"I", "n", "t", "e", "n", "s", "i", "t", "y">>)}
    ELSE {Str(<<"S", "t", "r", "u", "c", "t", "u", "r", "e", " ", "N", "o">>), Str(<<"D", "e", "s", "c", "r", "i", "p", "t", "i", "o", "n">>), Str(<<"O", "f", "f", "s", "e", "t">>)}

\* the rows of at most w cells, the row with no cell among them
RaggedDataRows(w) == UNION {[1..n -> {None, Str(<<"A">>)}] : n \in 0..w}

RaggedGrids(k) ==
    UNION {UNION {{<<h>> \o d : h \in [1..w -> RaggedHeaderCells(k)],
                                d \in [1..m -> RaggedDataRows(w)]}
                  : m \in 0..RaggedRows}
           : w \in 1..RaggedCols}

InitRagged ==
    /\ pc = "loaded"
    /\ kind \in {"da", "inlet"}
    /\ rows \in RaggedGrids(kind)
    /\ col_map = EmptyDict
    /\ data = <<>>
    /\ prev = <<>>
    /\ prev_rows = <<>>
    /\ Idle_sheet
    /\ Idle_gui

\* gui.py lines 161-165: the sheet of a table that has records is built
BuildLayout ==
    /\ pc = "parsed"
    /\ data # <<>>
    /\ IF kind = "da"
       THEN /\ ws' = create_da_summary_sheet(data)
            /\ pc' = "built"
       ELSE LET r == create_inlet_sheet(data, <<>>)
            IN  /\ ws' = r.ws
                /\ pc' = IF r.raised THEN "raised" ELSE "built"
    /\ UNCHANGED <<inlet_data, da_data, da_by_outflow, parse_vars, gui_vars>>

NextRagged == ParseDaSummary \/ ParseInlets \/ BuildLayout

SpecRagged == InitRagged /\ [][NextRagged]_vars

-----------------------------------------------------------------------------
(* gui.py: the window's path entries and its Generate button *)

DaPath      == <<"d", "a", ".", "x", "l", "s", "x">>
InletPath   == <<"i", "n", ".", "x", "l", "s", "x">>
MissingPath == <<"g", "o", "n", "e", ".", "x", "l", "s", "x">>
OutPath     == <<"o", "u", "t", ".", "x", "l", "s", "x">>

\* what the drainage-area export on disk can be: a file that does not open,
\* a sheet with nothing in it, a header row alone, a header row and a data row
DaFiles ==
    {[readable |-> FALSE, rows |-> <<>>],
     [readable |-> TRUE,  rows |-> <<>>],
     [readable |-> TRUE,
      rows |-> << <<Str(<<"O", "u", "t", "f", "l", "o", "w", " ", "S", "t", "r", "u", "c", "t", "u", "r", "e">>), Str(<<"C", "a", "t", "c", "h", "m", "e", "n", "t", " ", "I", "n", "t", "e", "n", "s", "i", "t", "y">>)>> >>],
     [readable |-> TRUE,
      rows |-> << <<Str(<<"O", "u", "t", "f", "l", "o", "w", " ", "S", "t", "r", "u", "c", "t", "u", "r", "e">>), Str(<<"C", "a", "t", "c", "h", "m", "e", "n", "t", " ", "I", "n", "t", "e", "n", "s", "i", "t", "y">>)>>,
                  <<Str(<<"A">>), Num(9)>> >>]}

\* what the inlet export on disk can be: a file that does not open, a header
\* row alone, a header row and a data row, a data row with a text for a flow
InletFiles ==
    {[readable |-> FALSE, rows |-> <<>>],
     [readable |-> TRUE,
      rows |-> << <<Str(<<"S", "t", "r", "u", "c", "t", "u", "r", "e", " ", "N", "o">>), Str(<<"F", "l", "o", "w", " ", "(", "C", "a", "p", "t", "u", "r", "e", "d", ")">>)>> >>],
     [readable |-> TRUE,
      rows |-> << <<Str(<<"S", "t", "r", "u", "c", "t", "u", "r", "e", " ", "N", "o">>), Str(<<"F", "l", "o", "w", " ", "(", "C", "a", "p", "t", "u", "r", "e", "d", ")">>)>>,
                  <<Str(<<"A">>), Num(3)>> >>],
     [readable |-> TRUE,
      rows |-> << <<Str(<<"T", "o", "t", "a", "l", " ", "B", "y", "p", "a", "s", "s", "e", "d">>), Str(<<"F", "l", "o", "w", " ", "(", "C", "a", "p", "t", "u", "r", "e", "d", ")">>)>>,
                  <<Num(1), Str(<<"n", "/", "a">>)>> >>]}

\* what can stand in a path entry
DaEntries    == {<<>>, <<" ">>, DaPath, <<" ", "d", "a", ".", "x", "l", "s", "x", " ">>, MissingPath}
InletEntries == {<<>>, InletPath, MissingPath}

isfile(path) == path \in DOMAIN disk

da_path == strip(da_file)
inlet_path == strip(inlet_file)

\* DrainageApp.__init__: both entries empty
InitGui ==
    /\ pc = "idle"
    /\ da_file = <<>>
    /\ inlet_file = <<>>
    /\ \E d \in DaFiles, i \in InletFiles :
          disk = [p \in {DaPath, InletPath} |-> IF p = DaPath THEN d ELSE i]
    /\ save_path = <<>>
    /\ wb = <<>>
    /\ events = <<>>
    /\ dialogs = <<>>
    /\ status = "black"
    /\ inlet_data = <<>>
    /\ da_data = <<>>
    /\ da_by_outflow = EmptyDict
    /\ ws = EmptyDict
    /\ kind = "da"
    /\ rows = <<>>
    /\ col_map = EmptyDict
    /\ data = <<>>
    /\ prev = <<>>
    /\ prev_rows = <<>>

run_vars == <<save_path, wb, events, dialogs, status, inlet_data, da_data>>

\* a try block whose except clause is never entered
try_step_swallow(raised, next) == next

\* the try block of _generate: a step that raises goes to the except clause,
\* any other step to the statement after it
try_step(raised, next) == IF raised THEN "except" ELSE next

\* _browse_da, or typing into the entry
SetDaFile ==
    /\ pc = "idle"
    /\ \E path \in DaEntries : path # da_file /\ da_file' = path
    /\ UNCHANGED <<pc, inlet_file, disk, run_vars, parse_vars, da_by_outflow, ws>>

\* _browse_inlet, or typing into the entry
SetInletFile ==
    /\ pc = "idle"
    /\ \E path \in InletEntries : path # inlet_file /\ inlet_file' = path
    /\ UNCHANGED <<pc, da_file, disk, run_vars, parse_vars, da_by_outflow, ws>>

\* _generate, lines 110-127: the checks that come before anything is read
GenerateValidate ==
    /\ pc = "idle"
    /\ IF da_path = <<>> /\ inlet_path = <<>>
       THEN /\ dialogs' = <<"warning: No files selected">>
            /\ events' = <<>>
            /\ pc' = "returned"
       ELSE IF da_path # <<>> /\ ~isfile(da_path)
       THEN /\ dialogs' = <<"error: File not found">>
            /\ events' = <<"isfile da">>
            /\ pc' = "returned"
       ELSE IF inlet_path # <<>> /\ ~isfile(inlet_path)
       THEN /\ dialogs' = <<"error: File not found">>
            /\ events' = (IF da_path # <<>> THEN <<"isfile da">> ELSE <<>>)
                         \o <<"isfile inlet">>
            /\ pc' = "returned"
       ELSE /\ dialogs' = <<>>
            /\ events' = (IF da_path # <<>> THEN <<"isfile da">> ELSE <<>>)
                         \o (IF inlet_path # <<>> THEN <<"isfile inlet">> ELSE <<>>)
            /\ pc' = "ask_save"
    /\ UNCHANGED <<da_file, inlet_file, disk, save_path, wb, status, inlet_data,
                   da_data, parse_vars, da_by_outflow, ws>>

\* lines 130-140: the save dialog; an empty answer ends the run
GenerateAskSave ==
    /\ pc = "ask_save"
    /\ \E answer \in {<<>>, OutPath} :
          /\ save_path' = answer
          /\ IF answer = <<>>
             THEN pc' = "returned" /\ status' = status
             ELSE pc' = "parse_da" /\ status' = "blue"
    /\ UNCHANGED <<da_file, inlet_file, disk, wb, events, dialogs, inlet_data,
                   da_data, parse_vars, da_by_outflow, ws>>

\* lines 144-150
GenerateParseDa ==
    /\ pc = "parse_da"
    /\ IF da_path # <<>>
       THEN LET r == parse_da_summary(disk[da_path])
            IN  /\ events' = Append(events, IF r.raised THEN "read da raised"
                                            ELSE "read da")
                /\ da_data' = r.data
                /\ pc' = try_step(r.raised, "parse_inlet")
       ELSE /\ events' = events
            /\ da_data' = <<>>
            /\ pc' = "parse_inlet"
    /\ UNCHANGED <<da_file, inlet_file, disk, save_path, wb, dialogs, status,
                   inlet_data, parse_vars, da_by_outflow, ws>>

\* lines 152-155
GenerateParseInlets ==
    /\ pc = "parse_inlet"
    /\ IF inlet_path # <<>>
       THEN LET r == parse_inlets(disk[inlet_path])
            IN  /\ events' = Append(events, IF r.raised THEN "read inlet raised"
                                            ELSE "read inlet")
                /\ inlet_data' = r.data
                /\ pc' = try_step(r.raised, "build_da")
       ELSE /\ events' = events
            /\ inlet_data' = <<>>
            /\ pc' = "build_da"
    /\ UNCHANGED <<da_file, inlet_file, disk, save_path, wb, dialogs, status,
                   da_data, parse_vars, da_by_outflow, ws>>

\* lines 157-162: the empty workbook, then the drainage-area sheet
GenerateBuildDa ==
    /\ pc = "build_da"
    /\ wb' = IF da_data # <<>> THEN <<create_da_summary_sheet(da_data)>> ELSE <<>>
    /\ events' = IF da_data # <<>> THEN Append(events, "build da") ELSE events
    /\ pc' = "build_inlet"
    /\ UNCHANGED <<da_file, inlet_file, disk, save_path, dialogs, status,
                   inlet_data, da_data, parse_vars, da_by_outflow, ws>>

\* lines 164-165: the inlet sheet; a failed build leaves its sheet half made
GenerateBuildInlets ==
    /\ pc = "build_inlet"
    /\ IF inlet_data # <<>>
       THEN LET r == create_inlet_sheet(inlet_data, da_data)
            IN  /\ wb' = Append(wb, r.ws)
                /\ events' = Append(events, IF r.raised THEN "build inlet raised"
                                            ELSE "build inlet")
                /\ pc' = try_step(r.raised, "save")
       ELSE /\ wb' = wb
            /\ events' = events
            /\ pc' = "save"
    /\ UNCHANGED <<da_file, inlet_file, disk, save_path, dialogs, status,
                   inlet_data, da_data, parse_vars, da_by_outflow, ws>>

\* lines 167-176: wb.save, which the library refuses for a workbook with no
\* sheet and may refuse for a destination that cannot be written
GenerateSave ==
    /\ pc = "save"
    /\ \E written \in (IF wb = <<>> THEN {FALSE} ELSE BOOLEAN) :
          /\ events' = Append(events, IF written THEN "save" ELSE "save raised")
          /\ pc' = try_step(~written, "returned")
          /\ status' = IF written THEN "green" ELSE status
          /\ dialogs' = IF written THEN Append(dialogs, "info: Success")
                        ELSE dialogs
    /\ UNCHANGED <<da_file, inlet_file, disk, save_path, wb, inlet_data, da_data,
                   parse_vars, da_by_outflow, ws>>

\* lines 178-180: except Exception
GenerateExcept ==
    /\ pc = "except"
    /\ status' = "red"
    /\ dialogs' = Append(dialogs, "error: Something went wrong")
    /\ pc' = "returned"
    /\ UNCHANGED <<da_file, inlet_file, disk, save_path, wb, events, inlet_data,
                   da_data, parse_vars, da_by_outflow, ws>>

\* the handler has returned and the window waits for the next click
\* its dialogs are dismissed and its locals are gone; the status line stays
BackToIdle ==
    /\ pc = "returned"
    /\ pc' = "idle"
    /\ save_path' = <<>>
    /\ wb' = <<>>
    /\ events' = <<>>
    /\ dialogs' = <<>>
    /\ inlet_data' = <<>>
    /\ da_data' = <<>>
    /\ UNCHANGED <<da_file, inlet_file, disk, status, parse_vars, da_by_outflow, ws>>

NextGui ==
    \/ SetDaFile
    \/ SetInletFile
    \/ GenerateValidate
    \/ GenerateAskSave
    \/ GenerateParseDa
    \/ GenerateParseInlets
    \/ GenerateBuildDa
    \/ GenerateBuildInlets
    \/ GenerateSave
    \/ GenerateExcept
    \/ BackToIdle

SpecGui == InitGui /\ [][NextGui]_vars

-----------------------------------------------------------------------------
(* The claims *)

Range(s) == {s[i] : i \in DOMAIN s}

\* the phrase lists of the reader that reads the grid
PhrasesOf(k) == IF k = "da" THEN DA_PHRASES ELSE INLET_PHRASES

\* the columns (counted from 0) whose header cell, in any case, contains the phrase
ColumnsWith(header, phrase) ==
    {i - 1 : i \in {j \in DOMAIN header : contains(phrase, upper(header[j]))}}

\* C1: whenever some header cell contains a field's first-priority phrase,
\* the column resolved for the field is a cell that contains that phrase,
\* wherever the cells stand.
C1_FirstPhraseWins ==
    (pc = "parsed" /\ rows # <<>>) =>
        \A f \in DOMAIN PhrasesOf(kind) :
            LET first == ColumnsWith(clean_header(rows[1]), PhrasesOf(kind)[f][1])
            IN  first # {} => (f \in DOMAIN col_map /\ col_map[f] \in first)

\* the rows of the grid a reader is to keep: those whose first cell is
\* neither None nor an empty text
RowsToKeep(grid) ==
    SelectSeq(Tail(grid), LAMBDA row : row[1] # None /\ row[1] # Str(<<>>))

\* C5: the records returned are those of the data rows whose first cell is
\* neither None nor an empty text, one record a row, in the order of the rows.
C5_EmptyFirstCellSkipped ==
    (pc = "parsed" /\ rows # <<>>) =>
        /\ Len(data) = Len(RowsToKeep(rows))
        /\ \A i \in DOMAIN data :
              \A f \in DOMAIN col_map :
                  data[i][f] = RowsToKeep(rows)[i][col_map[f] + 1]

\* every field's phrases match at most one column of the header
OneColumnEach(header, k) ==
    \A f \in DOMAIN PhrasesOf(k) :
        Cardinality(UNION {ColumnsWith(header, PhrasesOf(k)[f][p]) :
                              p \in DOMAIN PhrasesOf(k)[f]}) <= 1

\* the grid was read, its columns were reordered, and it was read again
ReadAgain == pc = "parsed" /\ prev_rows # <<>>

\* every data row starts with an empty cell after the reordering exactly
\* when it did before
SameFirstCells ==
    \A r \in DOMAIN rows : r > 1 => ((rows[r][1] = None) <=> (prev_rows[r][1] = None))

\* C6 as stated: a grid whose fields match one column each gives the same
\* records after any reordering of its columns.
C6_AnyReordering ==
    (ReadAgain /\ OneColumnEach(clean_header(prev_rows[1]), kind)) => data = prev

\* C6 amended: a grid whose fields match one column each gives the same
\* records after a reordering of its columns that leaves every data row's
\* first cell empty exactly when it was empty before.
C6_ReorderingKeepingFirstCells ==
    (ReadAgain /\ OneColumnEach(clean_header(prev_rows[1]), kind) /\ SameFirstCells)
        => data = prev

\* C6 witness: a header with a resolved field was moved, the first cells are
\* empty as before, and records were read
C6_Witness ==
    /\ ReadAgain
    /\ OneColumnEach(clean_header(prev_rows[1]), kind)
    /\ SameFirstCells
    /\ rows[1] # prev_rows[1]
    /\ col_map # EmptyDict
    /\ data # <<>>
    /\ \E i \in DOMAIN data : \E f \in DOMAIN col_map : data[i][f] # None

-----------------------------------------------------------------------------

\* the cell of the Inlets sheet in the row of the i-th inlet record
Cell(i, letter) == ws.cells[<<data_start + i - 1, col(letter)>>]

\* the text of a record's outflow_structure, trimmed; no text when the field
\* is absent, None, or empty after trimming
Carries(da) ==
    /\ "outflow_structure" \in DOMAIN da
    /\ da["outflow_structure"].t = "str"
    /\ strip(da["outflow_structure"].s) # <<>>

\* the drainage-area records whose trimmed outflow_structure is the text
LinkedTo(text) ==
    {k \in DOMAIN da_data :
        Carries(da_data[k]) /\ strip(da_data[k]["outflow_structure"].s) = text}

\* columns H..L of row i hold the values of the drainage-area record da
HoldsValuesOf(i, da) ==
    /\ Cell(i, "H") = get(da, "designation")
    /\ Cell(i, "I") = get(da, "area_acres")
    /\ Cell(i, "J") = get(da, "runoff_coeff")
    /\ Cell(i, "K") = get(da, "tc_min")
    /\ Cell(i, "L") = get(da, "intensity")

BlankHtoL(i) == \A letter \in {"H", "I", "J", "K", "L"} : Cell(i, letter) = None

\* C2: columns H..L of an inlet's row hold the values of a drainage-area
\* record whose trimmed outflow_structure is the inlet's untrimmed
\* structure_no, and are blank when there is no such record.
C2_LinkedColumns ==
    pc = "built" =>
        \A i \in DOMAIN inlet_data :
            LET no == get(inlet_data[i], "structure_no")
                links == IF no.t = "str" THEN LinkedTo(no.s) ELSE {}
            IN  IF links # {}
                THEN \E k \in links : HoldsValuesOf(i, da_data[k])
                ELSE BlankHtoL(i)

\* C3: the keys of the lookup are the trimmed outflow_structure texts of the
\* records that carry one, the empty text is no key, and a key maps to the
\* last record that has it.
C3_LookupKeys ==
    pc = "built" =>
        /\ DOMAIN da_by_outflow =
              {strip(da_data[k]["outflow_structure"].s) :
                  k \in {j \in DOMAIN da_data : Carries(da_data[j])}}
        /\ <<>> \notin DOMAIN da_by_outflow
        /\ \A key \in DOMAIN da_by_outflow :
              LinkedTo(key) # {} =>
                  da_by_outflow[key] = da_data[SetMax(LinkedTo(key))]

\* C4: column Q is flow_captured + flow_total_bypassed, an absent operand
\* counting as 0, when one of the two is present, a present 0 included, and
\* is blank only when both are absent.
C4_SumOfPresentFlows ==
    pc = "built" =>
        \A i \in DOMAIN inlet_data :
            LET c == get(inlet_data[i], "flow_captured")
                b == get(inlet_data[i], "flow_total_bypassed")
            IN  (c.t \in {"none", "num"} /\ b.t \in {"none", "num"}) =>
                    IF c = None /\ b = None
                    THEN Cell(i, "Q") = None
                    ELSE Cell(i, "Q") = Num(c.n + b.n)

\* t is s without the blanks at its ends
IsTrimOf(t, s) ==
    /\ \E a, b \in 0..Len(s) :
          /\ a + b <= Len(s)
          /\ t = SubSeq(s, a + 1, Len(s) - b)
          /\ \A j \in 1..a : s[j] = " "
          /\ \A j \in (Len(s) - b + 1)..Len(s) : s[j] = " "
    /\ t # <<>> => (t[1] # " " /\ t[Len(t)] # " ")

\* the text after the last backslash of s
AfterLastSeparator(s) ==
    LET seps == {j \in DOMAIN s : s[j] = "\\"}
    IN  IF seps = {} THEN s ELSE SubSeq(s, SetMax(seps) + 1, Len(s))

\* the last of the segments of s between backslashes that is not empty, or
\* the empty text when all are empty
LastNonEmptySegment(s) ==
    LET ok == {k \in DOMAIN split(s, "\\") : split(s, "\\")[k] # <<>>}
    IN  IF ok = {} THEN <<>> ELSE split(s, "\\")[SetMax(ok)]

\* C9 as stated: column E is the last non-empty segment of the description,
\* trimmed, and empty when the description is absent.
C9_LastNonEmptySegment ==
    pc = "built" =>
        \A i \in DOMAIN inlet_data :
            LET d == get(inlet_data[i], "description")
            IN  /\ d = None => Cell(i, "E") = Str(<<>>)
                /\ d.t = "str" =>
                      /\ Cell(i, "E").t = "str"
                      /\ IsTrimOf(Cell(i, "E").s, LastNonEmptySegment(d.s))

\* C9 amended: column E is the text after the last backslash of the
\* description, trimmed, so it is empty for a description that ends in a
\* backslash; it is empty when the description is absent.
C9_LastSegment ==
    pc = "built" =>
        \A i \in DOMAIN inlet_data :
            LET d == get(inlet_data[i], "description")
            IN  /\ d = None => Cell(i, "E") = Str(<<>>)
                /\ d.t = "str" =>
                      /\ Cell(i, "E").t = "str"
                      /\ IsTrimOf(Cell(i, "E").s, AfterLastSeparator(d.s))
                      /\ (d.s # <<>> /\ d.s[Len(d.s)] = "\\") => Cell(i, "E") = Str(<<>>)

\* C9 witness: a row was built from a description that ends in a backslash and
\* has a segment before it
C9_Witness ==
    /\ pc = "built"
    /\ \E i \in DOMAIN inlet_data :
          /\ get(inlet_data[i], "description") = Str(<<"N", "\\", "C", "I", "\\">>)
          /\ Cell(i, "E") = Str(<<>>)

\* the offset is present and is not zero
OffsetShown(o) == o # None /\ o # Num(0)

\* C10 as stated: column D is the station text, followed by ", Offset: " and
\* the offset exactly when the offset is present and not zero.
C10_StationThenOffset ==
    pc = "built" =>
        \A i \in DOMAIN inlet_data :
            LET s == get(inlet_data[i], "station")
                o == get(inlet_data[i], "offset")
            IN  Cell(i, "D") =
                    Str((IF s = None THEN <<>> ELSE str(s))
                        \o (IF OffsetShown(o) THEN <<",", " ", "O", "f", "f", "s", "e", "t", ":", " ">> \o str(o)
                            ELSE <<>>))

\* C10 amended: column D is the station text, followed by ", Offset: " and
\* the offset when the offset is present and not zero; without a station it
\* is "Offset: " and the offset, with no separator before it; an offset
\* that is absent or zero adds nothing, and D is empty when both are absent.
C10_StationAndOffset ==
    pc = "built" =>
        \A i \in DOMAIN inlet_data :
            LET s == get(inlet_data[i], "station")
                o == get(inlet_data[i], "offset")
            IN  Cell(i, "D") =
                    Str(IF s # None /\ OffsetShown(o)
                            THEN str(s) \o <<",", " ", "O", "f", "f", "s", "e", "t", ":", " ">> \o str(o)
                        ELSE IF s # None THEN str(s)
                        ELSE IF OffsetShown(o) THEN <<"O", "f", "f", "s", "e", "t", ":", " ">> \o str(o)
                        ELSE <<>>)

\* C10 witness: a row was built from offset 5 and no station
C10_Witness ==
    /\ pc = "built"
    /\ \E i \in DOMAIN inlet_data :
          /\ get(inlet_data[i], "station") = None
          /\ get(inlet_data[i], "offset") = Num(5)
          /\ Cell(i, "D") = Str(<<"O", "f", "f", "s", "e", "t", ":", " ", "5">>)

-----------------------------------------------------------------------------

SheetTitles == {wb[i].title : i \in DOMAIN wb}

Succeeded == pc = "returned" /\ "info: Success" \in Range(dialogs)

\* C7: after a run that reports success the workbook has the Drainage Area
\* Summary sheet exactly when a drainage-area path was given, and the Inlets
\* sheet exactly when an inlet path was given.
C7_SheetForEachInput ==
    Succeeded =>
        /\ ("Drainage Area Summary" \in SheetTitles) <=> (da_path # <<>>)
        /\ ("Inlets" \in SheetTitles) <=> (inlet_path # <<>>)

SaveTried == Range(events) \cap {"save", "save raised"} # {}

ReadTried ==
    Range(events) \cap {"read da", "read da raised",
                        "read inlet", "read inlet raised"} # {}

StepFailed ==
    Range(events) \cap {"read da raised", "read inlet raised",
                        "build inlet raised"} # {}

-----------------------------------------------------------------------------

\* the rows of the sheet that hold a data cell
DataRowsOf(sheet) == {x[1] : x \in DOMAIN sheet.cells}

\* the cell of the Drainage Area Summary sheet in the row of the record at
\* index i (counted from 0) of da_data
DaCell(i, letter) == ws.cells[<<5 + i, col(letter)>>]

\* C11: the Drainage Area Summary sheet of n records has the data rows 5 ..
\* 4+n and no other, the record at index i (from 0) on row 5+i; its
\* designation, area, Tc and runoff coefficient are in A..D, its intensity
\* in E and its flow_cfs in I, F..H and J..L are blank, and a field the
\* record lacks leaves its column blank.
C11_OneRowPerRecord ==
    (pc = "built" /\ ws.title = "Drainage Area Summary") =>
        /\ DataRowsOf(ws) = {5 + i : i \in 0..(Len(da_data) - 1)}
        /\ \A i \in 0..(Len(da_data) - 1) :
              LET record == da_data[i + 1]
                  field(f) == IF f \in DOMAIN record THEN record[f] ELSE None
              IN  /\ DaCell(i, "A") = field("designation")
                  /\ DaCell(i, "B") = field("area_acres")
                  /\ DaCell(i, "C") = field("tc_min")
                  /\ DaCell(i, "D") = field("runoff_coeff")
                  /\ DaCell(i, "E") = field("intensity")
                  /\ DaCell(i, "I") = field("flow_cfs")
                  /\ \A letter \in {"F", "G", "H", "J", "K", "L"} :
                        DaCell(i, letter) = None

\* C11 witness: a sheet of two records, the second with an intensity and a
\* flow and nothing else, in row 6
C11_Witness ==
    /\ pc = "built"
    /\ ws.title = "Drainage Area Summary"
    /\ Len(da_data) = 2
    /\ da_data[1] # da_data[2]
    /\ DOMAIN da_data[2] = {"intensity", "flow_cfs"}
    /\ DaCell(1, "E") = Num(4)
    /\ DaCell(1, "I") = Num(5)
    /\ DaCell(1, "A") = None

-----------------------------------------------------------------------------

\* the fields with a phrase that some header cell contains
ResolvedFields(header, k) ==
    {f \in DOMAIN PhrasesOf(k) :
        \E p \in DOMAIN PhrasesOf(k)[f] : ColumnsWith(header, PhrasesOf(k)[f][p]) # {}}

\* the data rows a reader retains: those with a first cell that is not None
RetainedRows(grid) ==
    SelectSeq(Tail(grid), LAMBDA row : Len(row) > 0 /\ row[1] # None)

\* the records are those of the retained rows: their keys are the resolved
\* fields, each holding the cell at its column, or None in a shorter row
RecordsOfRetainedRows ==
    /\ Len(data) = Len(RetainedRows(rows))
    /\ \A i \in DOMAIN data :
          LET row == RetainedRows(rows)[i]
          IN  /\ DOMAIN data[i] = ResolvedFields(clean_header(rows[1]), kind)
              /\ \A f \in DOMAIN data[i] :
                    /\ f \in DOMAIN col_map
                    /\ data[i][f] = IF col_map[f] < Len(row)
                                    THEN row[col_map[f] + 1] ELSE None

\* the Inlets sheet built from records without a description has an empty
\* inlet type in every data row
EmptyInletTypes ==
    (kind = "inlet" /\ "description" \notin DOMAIN col_map) =>
        \A i \in DOMAIN data : ws.cells[<<data_start + i - 1, col("E")>>] = Str(<<>>)

\* C12: a grid with a header row and data rows of any length is read
\* without failure; each retained row gives a record whose keys are the
\* resolved fields, with None for a column the row is too short for; and
\* the layout is built from them without failure, the inlet type empty
\* where no description was resolved.
C12_FieldExtraction ==
    /\ pc # "raised"
    /\ (pc \in {"parsed", "built"} /\ rows # <<>>) => RecordsOfRetainedRows
    /\ pc = "built" => EmptyInletTypes

-----------------------------------------------------------------------------

\* the cells of column A that were written, and the merged ranges that
\* start in column A
ColumnACells == {x \in DOMAIN ws.cells : x[2] = col("A")}
ColumnAMerges == {m \in ws.merged : m[1] = col("A")}

\* C13: the Inlets sheet of n records has the label PROPOSED in A5, and in
\* no other cell of column A, exactly when n >= 1; column A is merged over
\* the rows 5 .. 4+n when n >= 2 and is not merged when n is 0 or 1.
C13_LabelSpan ==
    (pc = "built" /\ ws.title = "Inlets") =>
        LET n == Len(inlet_data)
        IN  /\ ColumnACells = (IF n >= 1 THEN {<<5, 1>>} ELSE {})
            /\ n >= 1 => ws.cells[<<5, 1>>] = Str(<<"P", "R", "O", "P", "O", "S", "E", "D">>)
            /\ ColumnAMerges = (IF n >= 2 THEN {<<1, 5, 1, 4 + n>>} ELSE {})
            /\ \A r \in 5..(4 + n) : \A c \in 2..22 : <<r, c>> \in DOMAIN ws.cells

\* C13 witness: a sheet of two records, labelled in A5 and merged over A5:A6
C13_Witness ==
    /\ pc = "built"
    /\ ws.title = "Inlets"
    /\ Len(inlet_data) = 2
    /\ ws.cells[<<5, 1>>] = Str(<<"P", "R", "O", "P", "O", "S", "E", "D">>)
    /\ <<1, 5, 1, 6>> \in ws.merged
====
